---- MODULE Spec2Model ----
(***************************************************************************)
(* Model of the memory-context manager (utils/azure_file_storage.py) and   *)
(* of the request dispatch loop (function_app.py).                         *)
(*                                                                         *)
(* The file share is an external collaborator: every call to it either     *)
(* acts on the share or raises.  A call can raise for a reason the share's *)
(* content explains (a missing file, a missing parent directory) or for a  *)
(* reason outside the program (network, throttling).  Each operation of    *)
(* the manager is therefore a relation: an operator that returns the SET   *)
(* of outcomes the operation can have from a given state, one per pattern  *)
(* of storage failures.                                                    *)
(***************************************************************************)
EXTENDS Integers, Sequences, FiniteSets, TLC

VARIABLES
    fs,                   \* the file share: [dirs, files]
    current_guid,         \* AzureFileStorageManager.current_guid
    current_memory_path,  \* AzureFileStorageManager.current_memory_path
    last,                 \* the last manager operation: its arguments and its result
    rt,                   \* position and inputs of the round-trip caller
    agent_files,          \* the share's agents directory: file stem -> source text
    assistant,            \* the Assistant singleton of the process
    req,                  \* the requests in progress, one per worker thread
    workload              \* what the clients send and how often the model calls tools

mgrVars == <<fs, current_guid, current_memory_path, last, rt>>
appVars == <<agent_files, assistant, req, workload>>
vars == <<fs, current_guid, current_memory_path, last, rt,
          agent_files, assistant, req, workload>>

-----------------------------------------------------------------------------
(* Identifiers *)

None == "None"

DEFAULT_USER_GUID == "c0p110t0-aaaa-bbbb-cccc-123456789abc"

default_guids == {"c0p110t0-aaaa-bbbb-cccc-123456789abc",
                  "d3fau1t0-c0p1-10t0-b0t0-111111111111"}

GuidA == "3fa85f64-5717-4562-b3fc-2c963f66afa6"

GuidB == "7c9e6679-7425-40de-944b-e07fc1f90ae7"

Malformed == "not-a-guid"

\* A well-formed identifier followed by a line feed: 37 characters.
GuidNewline == "3fa85f64-5717-4562-b3fc-2c963f66afa6\n"

\* The characters of an identifier, as the pattern sees them: the lengths of
\* its hyphen-separated groups and whether every character is a hex digit,
\* both up to a final line feed, which '$' lets pass.
IdGroups(g) ==
    CASE g = "c0p110t0-aaaa-bbbb-cccc-123456789abc" -> <<8, 4, 4, 4, 12>>
      [] g = "d3fau1t0-c0p1-10t0-b0t0-111111111111" -> <<8, 4, 4, 4, 12>>
      [] g = "3fa85f64-5717-4562-b3fc-2c963f66afa6" -> <<8, 4, 4, 4, 12>>
      [] g = "7c9e6679-7425-40de-944b-e07fc1f90ae7" -> <<8, 4, 4, 4, 12>>
      [] g = "3fa85f64-5717-4562-b3fc-2c963f66afa6\n" -> <<8, 4, 4, 4, 12>>
      [] g = "not-a-guid" -> <<3, 1, 4>>
      [] OTHER -> <<>>

IdAllHex(g) ==
    g \in {"3fa85f64-5717-4562-b3fc-2c963f66afa6",
           "7c9e6679-7425-40de-944b-e07fc1f90ae7",
           "3fa85f64-5717-4562-b3fc-2c963f66afa6\n"}

IdLength(g) ==
    CASE g = "3fa85f64-5717-4562-b3fc-2c963f66afa6\n" -> 37
      [] g = "not-a-guid" -> 10
      [] g \in {None, ""} -> 0
      [] OTHER -> 36

\* ^[0-9a-f]{8}-[0-9a-f]{4}-[0-9a-f]{4}-[0-9a-f]{4}-[0-9a-f]{12}$
guid_pattern(g) == IdGroups(g) = <<8, 4, 4, 4, 12>> /\ IdAllHex(g)

\* Python truth value of an identifier: None and "" are false.
Truthy(g) == g \notin {None, ""}

\* The identifiers callers pass.
Ids == {None, "", DEFAULT_USER_GUID, GuidA, Malformed, GuidNewline}

\* The 36-character pattern of five hyphenated groups of hex digits.
UuidShaped(g) ==
    IdLength(g) = 36 /\ IdGroups(g) = <<8, 4, 4, 4, 12>> /\ IdAllHex(g)

\* The identifiers of the users: their memory blobs may exist before the
\* program runs.
UserIds == {g \in Ids : g \in default_guids \/ UuidShaped(g)}

-----------------------------------------------------------------------------
(* JSON documents and their text *)

\* A text is a sequence of tokens: punctuation, white space, a JSON string,
\* a JSON literal (true, false, null) or raw text that is no JSON.
LBrace == <<"p", "{">>
RBrace == <<"p", "}">>
Colon  == <<"p", ":">>
Comma  == <<"p", ",">>
Blank  == <<"w", " ">>
Str(x) == <<"s", x>>
JsonTrue == <<"l", "true">>
JsonFalse == <<"l", "false">>
JsonNull == <<"l", "null">>
JsonOne == <<"l", "1">>
JsonZero == <<"l", "0">>
Raw(x) == <<"t", x>>

\* A document is a JSON object: an ordered sequence of <<key, value>> pairs
\* with distinct keys, each value a JSON string or literal.
Docs == { <<>>,
          << <<"a", Str("1")>> >>,
          << <<"a", Str("1")>>, <<"b", Str("2")>> >> }

RECURSIVE DumpMembers(_, _)
DumpMembers(doc, i) ==
    IF i > Len(doc) THEN <<>>
    ELSE <<Blank, Str(doc[i][1]), Colon, Blank, doc[i][2]>>
         \o (IF i < Len(doc) THEN <<Comma>> ELSE <<Blank>>)
         \o DumpMembers(doc, i + 1)

\* json.dumps(data, indent=4)
Dumps(doc) == <<LBrace>> \o DumpMembers(doc, 1) \o <<RBrace>>

\* The text with its white space removed.
RECURSIVE Strip(_)
Strip(t) ==
    IF t = <<>> THEN <<>>
    ELSE IF t[1][1] = "w" THEN Strip(Tail(t))
    ELSE <<t[1]>> \o Strip(Tail(t))

NotJson == [ok |-> FALSE, doc |-> <<>>]

\* The members of an object after its opening brace; t[i] is the next token.
RECURSIVE LoadMembers(_, _, _)
LoadMembers(t, i, acc) ==
    IF i + 3 > Len(t) THEN NotJson
    ELSE IF t[i][1] # "s" \/ t[i + 1] # Colon \/ t[i + 2][1] \notin {"s", "l"}
    THEN NotJson
    ELSE LET doc == Append(acc, <<t[i][2], t[i + 2]>>)
         IN  IF t[i + 3] = RBrace
             THEN (IF i + 3 = Len(t) THEN [ok |-> TRUE, doc |-> doc] ELSE NotJson)
             ELSE IF t[i + 3] = Comma THEN LoadMembers(t, i + 4, doc)
             ELSE NotJson

\* json.loads of a text that should hold an object: ok is FALSE where
\* json.loads raises or the document is no object.
json_loads(text) ==
    LET t == Strip(text)
    IN  IF Len(t) < 2 \/ t[1] # LBrace THEN NotJson
        ELSE IF t[2] = RBrace
             THEN (IF Len(t) = 2 THEN [ok |-> TRUE, doc |-> <<>>] ELSE NotJson)
             ELSE LoadMembers(t, 2, <<>>)

InvalidJson == << <<"error", Str("Invalid JSON")>> >>

LBracket == <<"p", "[">>
RBracket == <<"p", "]">>

\* The text of a JSON array.
IsArrayText(text) == Strip(text) = <<LBracket, RBracket>>

\* A parsed document that is a list, not an object.
ListValue == <<"list">>

\* safe_json_loads: {} for empty text, an error object for malformed text,
\* whatever json.loads returns otherwise
safe_json_loads(text) ==
    IF text = <<>> THEN <<>>
    ELSE IF IsArrayText(text) THEN ListValue
    ELSE IF json_loads(text).ok THEN json_loads(text).doc ELSE InvalidJson

EmptyObjectText == <<LBrace, RBrace>>

-----------------------------------------------------------------------------
(* The file share *)

shared_memory_path == <<"shared_memories">>
default_file_name == "memory.json"
user_file_name == "user_memory.json"

UserDir(g) == <<"memory", g>>

SharedFile == <<shared_memory_path, default_file_name>>
UserFile(g) == <<UserDir(g), user_file_name>>

\* A state of the manager and of the share, as the operations thread it:
\* dirs, files, the two scope fields, and inj, which records that some
\* storage call of the operation failed for a reason outside the program.
MkState(f, g, p) ==
    [dirs |-> f.dirs, files |-> f.files, inj |-> FALSE,
     current_guid |-> g, current_memory_path |-> p]

\* An outcome of a call: the state after it, the exception it raised
\* ("none", "err": some error, "rnf": an error whose text holds
\* 'ResourceNotFound') and what it returned (<<>>: nothing).
Out(s, exc, ret) == [s |-> s, exc |-> exc, ret |-> ret]
Ok(s) == Out(s, "none", <<>>)
Return(s, v) == Out(s, "none", v)
Raise(s, k) == Out(s, k, <<>>)

\* S, then F on each outcome that did not raise.
Then(S, F(_)) == UNION { IF o.exc = "none" THEN F(o) ELSE {o} : o \in S }

\* try S except Exception: H
Except(S, H(_)) == UNION { IF o.exc = "none" THEN {o} ELSE H(o) : o \in S }

\* A storage call failing for a reason outside the program.
Faults(s) == { Raise([s EXCEPT !.inj = TRUE], k) : k \in {"err", "rnf"} }

FileExists(s, dir, name) == <<dir, name>> \in DOMAIN s.files

Parent(p) == SubSeq(p, 1, Len(p) - 1)

\* file_service.create_share(share_name, fail_on_exist=False)
create_share(s) == {Ok(s)} \cup Faults(s)

\* file_service.create_directory(share_name, path, fail_on_exist=False)
create_directory(s, p) ==
    {IF Len(p) = 1 \/ Parent(p) \in s.dirs
     THEN Ok([s EXCEPT !.dirs = @ \cup {p}])
     ELSE Raise(s, "err")} \cup Faults(s)

\* file_service.get_file_properties(share_name, dir, name)
get_file_properties(s, dir, name) ==
    {IF FileExists(s, dir, name) THEN Ok(s) ELSE Raise(s, "rnf")} \cup Faults(s)

\* file_service.get_file_to_text(share_name, dir, name).content
get_file_to_text(s, dir, name) ==
    {IF FileExists(s, dir, name)
     THEN Return(s, <<s.files[<<dir, name>>]>>)
     ELSE Raise(s, "rnf")} \cup Faults(s)

PutFile(files, f, text) ==
    [x \in DOMAIN files \cup {f} |-> IF x = f THEN text ELSE files[x]]

\* file_service.create_file_from_text(share_name, dir, name, text)
create_file_from_text(s, dir, name, text) ==
    {IF dir \in s.dirs
     THEN Ok([s EXCEPT !.files = PutFile(@, <<dir, name>>, text)])
     ELSE Raise(s, "err")} \cup Faults(s)

-----------------------------------------------------------------------------
(* AzureFileStorageManager *)

SetScope(s, g, p) == [s EXCEPT !.current_guid = g, !.current_memory_path = p]

\* A reset to the shared scope that leaves current_guid as it is.
SharedScopePathOnly(s) == [s EXCEPT !.current_memory_path = shared_memory_path]

SharedScope(s) == SetScope(s, None, shared_memory_path)

\* The for loop of ensure_directory_exists over the first k..Len(p) prefixes.
RECURSIVE CreateParts(_, _, _)
CreateParts(s, p, k) ==
    IF k > Len(p) THEN {Ok(s)}
    ELSE Then(create_directory(s, SubSeq(p, 1, k)),
              LAMBDA o : CreateParts(o.s, p, k + 1))

\* ensure_directory_exists: True, or False on any exception; never raises.
ensure_directory_exists(s, p) ==
    IF p = <<>> THEN {Return(s, <<FALSE>>)}
    ELSE { Return(o.s, <<o.exc = "none">>) :
             o \in Then(create_share(s), LAMBDA c : CreateParts(c.s, p, 1)) }

\* _ensure_share_exists: creates the shared blob when get_file_properties
\* raises; logs and re-raises whatever escapes.
EnsureShareExists(s) ==
    Then(create_share(s), LAMBDA c :
      Then(ensure_directory_exists(c.s, shared_memory_path), LAMBDA d :
        Except(get_file_properties(d.s, shared_memory_path, default_file_name),
               LAMBDA p : create_file_from_text(p.s, shared_memory_path,
                                                default_file_name, EmptyObjectText))))

\* The check-then-create of a user blob: create it when get_file_properties raises.
CreateIfMissing(s, dir) ==
    Except(get_file_properties(s, dir, user_file_name),
           LAMBDA p : create_file_from_text(p.s, dir, user_file_name, EmptyObjectText))

\* set_memory_context, the branch of the default identifiers
SetDefaultContext(s, guid) ==
    LET user_dir == UserDir(guid)
        s1 == SetScope(s, guid, user_dir)
    IN  { IF o.exc = "none" THEN Return(o.s, <<TRUE>>)
          ELSE Return(SharedScope(o.s), <<FALSE>>) :
            o \in Then(ensure_directory_exists(s1, user_dir),
                       LAMBDA d : CreateIfMissing(d.s, user_dir)) }

\* set_memory_context, the branch of a validated identifier
SetGuidContext(s, guid) ==
    LET guid_dir == UserDir(guid)
    IN  { IF o.exc = "none" THEN Return(SetScope(o.s, guid, guid_dir), <<TRUE>>)
          ELSE Return(SharedScope(o.s), <<FALSE>>) :
            o \in Except(get_file_properties(s, guid_dir, user_file_name),
                    LAMBDA p :
                      Then(ensure_directory_exists(p.s, guid_dir), LAMBDA d :
                        create_file_from_text(d.s, guid_dir, user_file_name,
                                              EmptyObjectText))) }

set_memory_context(s, guid) ==
    IF ~Truthy(guid) THEN {Return(SharedScope(s), <<TRUE>>)}
    ELSE IF guid \in default_guids THEN SetDefaultContext(s, guid)
    ELSE IF ~guid_pattern(guid) THEN {Return(SharedScope(s), <<FALSE>>)}
    ELSE SetGuidContext(s, guid)

\* _read_guid_memory: logs and re-raises
ReadGuidMemory(s) ==
    Then(get_file_to_text(s, s.current_memory_path, user_file_name),
         LAMBDA o : {Return(o.s, <<safe_json_loads(o.ret[1])>>)})

\* _read_shared_memory: {} on any exception, after _ensure_share_exists when
\* the exception's text holds 'ResourceNotFound'
ReadSharedMemory(s) ==
    Except(Then(get_file_to_text(s, shared_memory_path, default_file_name),
                LAMBDA o : {Return(o.s, <<safe_json_loads(o.ret[1])>>)}),
           LAMBDA e :
             IF e.exc = "rnf"
             THEN Then(EnsureShareExists(e.s), LAMBDA x : {Return(x.s, << <<>> >>)})
             ELSE {Return(e.s, << <<>> >>)})

UserScopeActive(s) ==
    Truthy(s.current_guid) /\ s.current_memory_path # shared_memory_path

\* read_json whose fallback leaves the scope fields alone.
ReadJsonKeepingScope(s) ==
    IF UserScopeActive(s)
    THEN Except(ReadGuidMemory(s), LAMBDA e : ReadSharedMemory(e.s))
    ELSE ReadSharedMemory(s)

read_json(s) ==
    IF UserScopeActive(s)
    THEN Except(ReadGuidMemory(s), LAMBDA e : ReadSharedMemory(SharedScope(e.s)))
    ELSE ReadSharedMemory(s)

\* _write_guid_memory writing to the shared blob's path.
WriteGuidMemoryToShared(s, data) ==
    create_file_from_text(s, shared_memory_path, default_file_name, Dumps(data))

\* _write_guid_memory: logs and re-raises
WriteGuidMemory(s, data) ==
    create_file_from_text(s, s.current_memory_path, user_file_name, Dumps(data))

\* How deep _write_shared_memory may call itself before the interpreter's
\* recursion limit ends the call.
RecursionLimit == 2

\* _write_shared_memory at depth n: an exception is logged and swallowed,
\* unless its text holds 'ResourceNotFound': then _ensure_share_exists and
\* the write again.  At the recursion limit the innermost call raises
\* RecursionError inside its try, and the handler either logs it and returns
\* or raises again while logging.
RECURSIVE WriteSharedMemoryAt(_, _, _)
WriteSharedMemoryAt(s, data, n) ==
    IF n > RecursionLimit THEN {Ok(s), Raise(s, "err")}
    ELSE Except(create_file_from_text(s, shared_memory_path, default_file_name,
                                      Dumps(data)),
                LAMBDA e :
                  IF e.exc = "rnf"
                  THEN Then(EnsureShareExists(e.s),
                            LAMBDA x : WriteSharedMemoryAt(x.s, data, n + 1))
                  ELSE {Ok(e.s)})

WriteSharedMemory(s, data) == WriteSharedMemoryAt(s, data, 1)

\* The except branch of write_json: fall back to shared memory.
WriteFallback(s, data) == WriteSharedMemory(SharedScope(s), data)

write_json(s, data) ==
    IF UserScopeActive(s)
    THEN Except(WriteGuidMemory(s, data), LAMBDA e : WriteFallback(e.s, data))
    ELSE WriteSharedMemory(s, data)

\* clear_user_memory without its finally block.
RestoreContextSkipped(s, previous_guid, previous_path) == s

\* The finally block of clear_user_memory.
RestoreContext(s, previous_guid, previous_path) ==
    SetScope(s, previous_guid, previous_path)

\* write_json({}) inside clear_user_memory's inner try, and the two returns.
ClearWrite(s, done, failed) ==
    { IF w.exc = "none" THEN Return(w.s, <<TRUE, done>>)
      ELSE Return(w.s, <<FALSE, failed>>) : w \in write_json(s, <<>>) }

\* clear_user_memory, the branch of the default identifiers
ClearDefault(s, guid) ==
    LET s1 == SetScope(s, guid, UserDir(guid))
    IN  UNION { IF p.exc = "none"
                THEN ClearWrite(p.s, "cleared_default", "error_default")
                ELSE UNION { ClearWrite(d.s, "created_default", "error_default") :
                               d \in ensure_directory_exists(p.s, s1.current_memory_path) } :
                  p \in get_file_properties(s1, s1.current_memory_path, user_file_name) }

\* clear_user_memory, the branch of a validated identifier
ClearGuid(s, guid) ==
    LET s1 == SetScope(s, guid, UserDir(guid))
    IN  UNION { IF p.exc = "none"
                THEN ClearWrite(p.s, "cleared", "error")
                ELSE {Return(p.s, <<FALSE, "no_memory">>)} :
                  p \in get_file_properties(s1, s1.current_memory_path, user_file_name) }

\* clear_user_memory without its guard against an absent identifier: the
\* clear then runs on the shared scope.
ClearWithoutGuidCheck(s, guid) ==
    LET body == IF ~Truthy(guid)
                THEN ClearWrite(SharedScope(s), "cleared", "error")
                ELSE IF guid \in default_guids THEN ClearDefault(s, guid)
                ELSE IF ~guid_pattern(guid)
                     THEN {Return(s, <<FALSE, "invalid_format">>)}
                     ELSE ClearGuid(s, guid)
    IN  { Out(RestoreContext(o.s, s.current_guid, s.current_memory_path),
              o.exc, o.ret) : o \in body }

\* clear_user_memory: (success, message)
clear_user_memory(s, guid) ==
    IF ~Truthy(guid) THEN {Return(s, <<FALSE, "guid_required">>)}
    ELSE LET body == IF guid \in default_guids THEN ClearDefault(s, guid)
                     ELSE IF ~guid_pattern(guid)
                          THEN {Return(s, <<FALSE, "invalid_format">>)}
                          ELSE ClearGuid(s, guid)
         IN  { Out(RestoreContext(o.s, s.current_guid, s.current_memory_path),
                   o.exc, o.ret) : o \in body }

-----------------------------------------------------------------------------
(* function_app.py: the agent registry *)

\* The handlers bundled in the local agents folder.  LearnNewAgent is
\* agents/learn_new_agent.py; get_response names the two memory-aware ones.
StaticAgents == {"LearnNewAgent", "ManageMemory", "ContextMemory"}

MemoryAgents == {"ManageMemory", "ContextMemory"}

\* The names under which executing a source text registers handlers: the
\* classes it declares, up to the first one whose constructor raises.
DeclaredNames(source) ==
    CASE source = "class EchoAgent(BasicAgent): name = 'Echo'" -> {"Echo"}
      [] source = "class EchoTwoAgent(BasicAgent): name = 'Echo'" -> {"Echo"}
      [] source = "class ShadowAgent(BasicAgent): name = 'ManageMemory'" -> {"ManageMemory"}
      [] source = "class AEchoAgent(BasicAgent): name = 'Echo'; class ZedAgent(BasicAgent): __init__ raises" -> {"Echo"}
      [] source = "class LearnNewAgentAgent(BasicAgent): name = 'LearnNewAgent'" -> {"LearnNewAgent"}
      [] source = "class ManageMemoryAgent(BasicAgent): name = 'ManageMemory'" -> {"ManageMemory"}
      [] source = "class ContextMemoryAgent(BasicAgent): name = 'ContextMemory'" -> {"ContextMemory"}
      [] OTHER -> {}

\* Whether importing the source, or constructing one of its classes, raises.
LoadFails(source) ==
    source \in { "import missing_module",
                 "def broken(:",
                 "class BadAgent(BasicAgent): __init__ raises",
                 "class AEchoAgent(BasicAgent): name = 'Echo'; class ZedAgent(BasicAgent): __init__ raises" }

\* ''.join(c for c in agent_name if c.isalnum())
AlnumOnly(agent_name) ==
    CASE agent_name = "Echo" -> "Echo"
      [] agent_name = "Echo!" -> "Echo"
      [] agent_name = "my echo" -> "myecho"
      [] OTHER -> agent_name

NoFiles == [x \in {} |-> ""]

\* The stems of the agents directory whose source declares handler n.
StemsDeclaring(files, n) == {x \in DOMAIN files : n \in DeclaredNames(files[x])}

\* The order in which the share lists the files <stem>_agent.py.
ListingOrder == <<"Echo", "Echo2", "Shadow", "myecho">>

\* list_files('agents'): the files of the agents directory, in listing order.
Listing(files) ==
    LET present == SelectSeq(ListingOrder, LAMBDA x : x \in DOMAIN files)
    IN  [i \in 1..Len(present) |-> [file |-> present[i], source |-> files[present[i]]]]

\* os.listdir of the bundled agents folder.
BundledListing ==
    << [file |-> "context_memory_agent",
        source |-> "class ContextMemoryAgent(BasicAgent): name = 'ContextMemory'"],
       [file |-> "learn_new_agent",
        source |-> "class LearnNewAgentAgent(BasicAgent): name = 'LearnNewAgent'"],
       [file |-> "manage_memory_agent",
        source |-> "class ManageMemoryAgent(BasicAgent): name = 'ManageMemory'"] >>

NoAgents == [n \in {} |-> <<>>]

\* declared_agents[agent_instance.name] = agent_instance
RegisterKeepFirst(declared, names, handler) ==
    [n \in DOMAIN declared \cup names |->
       IF n \in DOMAIN declared THEN declared[n] ELSE handler]

Register(declared, names, handler) ==
    [n \in DOMAIN declared \cup names |->
       IF n \in names THEN handler ELSE declared[n]]

\* A discovery loop that gives up at the first file that fails to load.
RECURSIVE LoadFilesAbortOnFailure(_, _, _, _)
LoadFilesAbortOnFailure(declared, listing, origin, i) ==
    IF i > Len(listing) \/ LoadFails(listing[i].source) THEN declared
    ELSE LoadFilesAbortOnFailure(
             Register(declared, DeclaredNames(listing[i].source),
                      <<origin, listing[i].file>>),
             listing, origin, i + 1)

\* One discovery loop: each file in its own try; what a file registered
\* before it raised stays registered, and the loop continues.
RECURSIVE LoadFiles(_, _, _, _)
LoadFiles(declared, listing, origin, i) ==
    IF i > Len(listing) THEN declared
    ELSE LoadFiles(
             Register(declared, DeclaredNames(listing[i].source),
                      <<origin, listing[i].file>>),
             listing, origin, i + 1)

\* The bundled loop followed by the loop over the share.
LoadAgents(static, dynamic) ==
    LoadFiles(LoadFiles(NoAgents, static, "bundled", 1), dynamic, "share", 1)

\* load_agents_from_folder: name -> the file the handler was loaded from; the
\* handlers of the share are loaded after the bundled ones and replace them.
load_agents_from_folder(files) == LoadAgents(BundledListing, Listing(files))

\* reload_agents: the handlers keyed by their own name
reload_agents(agent_objects) == agent_objects

\* write_agent_file of learn_new_agent.py: False on any exception
write_agent_file(files, agent_name, content) ==
    { [files |-> [x \in DOMAIN files \cup {agent_name} |->
                    IF x = agent_name THEN content ELSE files[x]],
       ret |-> TRUE],
      [files |-> files, ret |-> FALSE] }

\* The value of a key in a document, None (null) when the key is absent.
RECURSIVE DocGetFrom(_, _, _)
DocGetFrom(doc, key, i) ==
    IF i = 0 THEN JsonNull
    ELSE IF doc[i][1] = key THEN doc[i][2]
    ELSE DocGetFrom(doc, key, i - 1)

DocGet(doc, key) == DocGetFrom(doc, key, Len(doc))

\* doc[key] = value
DocSet(doc, key, value) ==
    IF \E i \in 1..Len(doc) : doc[i][1] = key
    THEN [i \in 1..Len(doc) |-> IF doc[i][1] = key THEN <<key, value>> ELSE doc[i]]
    ELSE Append(doc, <<key, value>>)

\* Python truth value of a JSON value.
TruthyValue(v) == v \notin {JsonNull, JsonFalse, JsonZero, Str("")}

\* The truth value of v taken in place of v == True.
EqualsTrueByTruth(v) == TruthyValue(v)

\* v == True in Python: the number 1 equals True.
EqualsTrue(v) == v \in {JsonTrue, JsonOne}

\* LearnNewAgentAgent.perform: the new agents directory and the result text
LearnNewAgentPerform(files, kwargs) ==
    LET agent_name == DocGet(kwargs, "agent_name")
        python_implementation == DocGet(kwargs, "python_implementation")
    IN  IF ~TruthyValue(agent_name) \/ ~TruthyValue(python_implementation)
        THEN {[files |-> files,
               result |-> <<Raw("Error: Both agent_name and python_implementation are required")>>]}
        ELSE { [files |-> w.files,
                result |-> IF w.ret
                           THEN <<Raw("Successfully created new agent: "),
                                  Raw(AlnumOnly(agent_name[2]))>>
                           ELSE <<Raw("Failed to create agent: "),
                                  Raw(AlnumOnly(agent_name[2]))>>] :
                 w \in write_agent_file(files, AlnumOnly(agent_name[2]),
                                        python_implementation[2]) }

\* What a handler whose code is not in the source tree may return.
OpaqueResults == { <<Raw("done")>>,
                   Dumps(<< <<"status", Str("incomplete")>> >>) }

\* The results of such a handler in the workload at hand.
HandlerResults ==
    IF "results" \in DOMAIN workload THEN workload.results ELSE OpaqueResults

\* agent.perform(**kwargs): outcomes [files, raised, result]
\* str(e) of the exceptions a handler raises.
HandlerErrors == {"handler failed"}

Perform(name, files, kwargs) ==
    IF name = "LearnNewAgent"
    THEN { [files |-> o.files, raised |-> FALSE, error |-> "", result |-> o.result] :
             o \in LearnNewAgentPerform(files, kwargs) }
    ELSE { [files |-> files, raised |-> FALSE, error |-> "", result |-> x] :
             x \in HandlerResults }
         \cup { [files |-> files, raised |-> TRUE, error |-> e, result |-> <<>>] :
                  e \in HandlerErrors }

-----------------------------------------------------------------------------
(* function_app.py: Assistant *)

\* The Assistant class before its first construction.
NoAssistant == [initialized |-> FALSE,
                known_agents |-> [n \in {} |-> <<>>],
                user_guid |-> None]

\* _initialize_context_memory: the states it can leave the assistant's
\* storage manager in.  Without a ContextMemory handler it returns at once;
\* with one it selects the shared scope, recalls, selects the user scope and
\* recalls again, and any exception ends it where it is.
InitializeContextMemory(s, known_agents, user_guid) ==
    IF "ContextMemory" \notin DOMAIN known_agents THEN {s}
    ELSE {SharedScope(s)}
         \cup { o.s : o \in set_memory_context(
                               SharedScope(s),
                               IF Truthy(user_guid) THEN user_guid
                               ELSE DEFAULT_USER_GUID) }

\* An extract_user_guid that knows only the labelled form.
ExtractLabelledOnly(text) ==
    IF text = "guid: 3fa85f64-5717-4562-b3fc-2c963f66afa6"
    THEN "3fa85f64-5717-4562-b3fc-2c963f66afa6"
    ELSE None

\* extract_user_guid: the prompt itself when it is exactly a GUID, the GUID of
\* a 'guid: <id>' prompt, else None
extract_user_guid(text) ==
    IF guid_pattern(text) THEN text
    ELSE IF text = "guid: 3fa85f64-5717-4562-b3fc-2c963f66afa6"
         THEN "3fa85f64-5717-4562-b3fc-2c963f66afa6"
         ELSE None

\* _check_first_message_for_guid
CheckFirstMessageForGuid(history) ==
    IF history = <<>> THEN None
    ELSE IF history[1].role = "user" /\ guid_pattern(history[1].content)
         THEN history[1].content
         ELSE None

Message(role, name, content) == [role |-> role, name |-> name, content |-> content]

\* ensure_string_content of a history turn
HistoryTurn(m) == Message(m.role, "", <<Raw(m.content)>>)

\* prepare_messages: the system message, then the history without a first
\* turn that is only a GUID
prepare_messages(history) ==
    LET start_idx == IF CheckFirstMessageForGuid(history) # None THEN 2 ELSE 1
    IN  <<Message("system", "", <<Raw("system prompt")>>)>>
        \o [i \in 1..(Len(history) - start_idx + 1) |->
              HistoryTurn(history[i + start_idx - 1])]

\* The sanitizing loop of get_response: None becomes "".
RECURSIVE Sanitize(_, _)
Sanitize(params, i) ==
    IF i > Len(params) THEN <<>>
    ELSE <<IF params[i][2] = JsonNull THEN <<params[i][1], Str("")>> ELSE params[i]>>
         \o Sanitize(params, i + 1)

\* The identifier injected only where the model supplied none.
HandlerParametersKeepSupplied(agent_name, json_data, user_guid) ==
    LET sanitized_parameters == Sanitize(safe_json_loads(json_data), 1)
    IN  IF agent_name \in MemoryAgents
           /\ ~(\E i \in 1..Len(sanitized_parameters) :
                  sanitized_parameters[i][1] = "user_guid")
        THEN DocSet(sanitized_parameters, "user_guid", Str(user_guid))
        ELSE sanitized_parameters

\* The parameters get_response passes to the handler.
HandlerParameters(agent_name, json_data, user_guid) ==
    LET sanitized_parameters == Sanitize(safe_json_loads(json_data), 1)
    IN  IF agent_name \in MemoryAgents
        THEN DocSet(sanitized_parameters, "user_guid", Str(user_guid))
        ELSE sanitized_parameters

\* An evaluation that never asks for another function call.
NeedsFollowUpNever(result) == FALSE

\* An evaluation that asks for another function call after every result.
NeedsFollowUpAlways(result) == TRUE

\* The evaluation of a handler's result: is another function call needed?
NeedsFollowUp(result) ==
    LET result_json == json_loads(result)
    IN  /\ result_json.ok
        /\ \/ TruthyValue(DocGet(result_json.doc, "error"))
           \/ DocGet(result_json.doc, "status") = Str("incomplete")
           \/ EqualsTrue(DocGet(result_json.doc, "requires_additional_action"))

\* get_response's default max_retries
max_retries_default == 3

\* How many handler results the model keeps of one request; later ones are
\* performed and not recorded.
MaxTurns == 2

\* How many model calls of one request the model counts.
MaxCalls == 3

Unbounded == 0 - 1

Idle == [pc |-> "idle", user_guid |-> None, user_input |-> "", history |-> <<>>,
         agents |-> [n \in {} |-> <<>>], max_retries |-> max_retries_default,
         retry_count |-> 0, needs_follow_up |-> FALSE, messages |-> <<>>,
         agent_logs |-> <<>>, calls |-> 0, tools_left |-> 0,
         performed |-> <<>>, response |-> [kind |-> "none"], out |-> <<>>]

Off == [Idle EXCEPT !.pc = "off"]

Reqs == {"r1", "r2"}

NoWorkload == [guids |-> {}, inputs |-> {}, histories |-> {}, tools |-> {},
               retries |-> {}]

-----------------------------------------------------------------------------
(* The manager's operations, called in any order by its callers *)

\* The share's content before the program runs: the shared blob exists (the
\* constructor creates it); each user blob is absent or holds a document.
Blobs == { <<d>> : d \in Docs } \cup { <<>> }

InitShare(sd, u) ==
    [dirs  |-> {shared_memory_path}
               \cup { UserDir(g) : g \in {x \in UserIds : u[x] # <<>>} }
               \cup (IF \E g \in UserIds : u[g] # <<>> THEN {<<"memory">>} ELSE {}),
     files |-> [f \in {SharedFile} \cup { UserFile(g) : g \in {x \in UserIds : u[x] # <<>>} } |->
                  IF f = SharedFile THEN Dumps(sd)
                  ELSE Dumps(u[CHOOSE g \in UserIds : UserFile(g) = f][1])]]

NoCall == [op |-> "none", guid |-> None, doc |-> <<>>, exc |-> "none",
           ret |-> <<>>, inj |-> FALSE]

RtIdle == [step |-> 0, guid |-> None, doc |-> <<>>, clean |-> TRUE, shared |-> <<>>]

\* The callers of the manager and the identifiers they pass.
CallerWorkload(ids) ==
    [guids |-> {}, inputs |-> {}, histories |-> {}, tools |-> {}, retries |-> {},
     ids |-> ids]

ManagerInit(ids) ==
    /\ \E sd \in Docs : \E u \in [UserIds -> Blobs] : fs = InitShare(sd, u)
    /\ current_guid = None
    /\ current_memory_path = shared_memory_path
    /\ last = NoCall
    /\ rt = RtIdle
    /\ agent_files = NoFiles
    /\ assistant = NoAssistant
    /\ req = [r \in Reqs |-> Off]
    /\ workload = CallerWorkload(ids)

\* Callers that pass identifiers of 36 characters or fewer.
Init == ManagerInit(Ids \ {GuidNewline})

Cur == MkState(fs, current_guid, current_memory_path)

\* The operation's outcome becomes the state.
Commit(op, g, d, o) ==
    /\ fs' = [dirs |-> o.s.dirs, files |-> o.s.files]
    /\ current_guid' = o.s.current_guid
    /\ current_memory_path' = o.s.current_memory_path
    /\ last' = [op |-> op, guid |-> g, doc |-> d, exc |-> o.exc, ret |-> o.ret,
                inj |-> o.s.inj]
    /\ UNCHANGED appVars

SetMemoryContext ==
    /\ \E g \in workload.ids : \E o \in set_memory_context(Cur, g) :
         Commit("set_memory_context", g, <<>>, o)
    /\ UNCHANGED rt

ReadJson ==
    /\ \E o \in read_json(Cur) : Commit("read_json", None, <<>>, o)
    /\ UNCHANGED rt

WriteJson ==
    /\ \E d \in Docs : \E o \in write_json(Cur, d) : Commit("write_json", None, d, o)
    /\ UNCHANGED rt

ClearUserMemory ==
    /\ \E g \in workload.ids : \E o \in clear_user_memory(Cur, g) :
         Commit("clear_user_memory", g, <<>>, o)
    /\ UNCHANGED rt

Next == SetMemoryContext \/ ReadJson \/ WriteJson \/ ClearUserMemory

Spec == Init /\ [][Next]_vars

\* Callers that pass any identifier.
AnyIdInit == ManagerInit(Ids)

AnyIdSpec == AnyIdInit /\ [][Next]_vars

\* The text of a blob, <<>> when the blob does not exist.
BlobText(f, file) == IF file \in DOMAIN f.files THEN <<f.files[file]>> ELSE <<>>

-----------------------------------------------------------------------------
(* Claims about the memory-context manager *)

\* C1: clear_user_memory(id) never changes the content of the shared memory
\* blob, for every identifier and every pattern of storage failures.
C1_ClearKeepsSharedBlob ==
    [][last'.op = "clear_user_memory"
         => BlobText(fs', SharedFile) = BlobText(fs, SharedFile)]_vars

\* C5: after write_json(doc) returns while a user scope is active, doc is the
\* stored content of that user's blob or of the shared blob.
C5_WriteNeverDropped ==
    [][(last'.op = "write_json" /\ last'.exc = "none" /\ UserScopeActive(Cur))
         => \/ BlobText(fs', UserFile(current_guid)) = <<Dumps(last'.doc)>>
            \/ BlobText(fs', SharedFile) = <<Dumps(last'.doc)>>]_vars

\* C6: under every pattern of blob-store failures read_json() and
\* write_json(doc) return normally: no storage error reaches their caller.
C6_NoStorageErrorSurfaces ==
    last.op \in {"read_json", "write_json"} => last.exc = "none"

\* C7: set_memory_context(id) leaves the content of an already-existing
\* memory/<id>/user_memory.json as it was, for every accepted identifier and
\* every pattern of storage failures.
C7_ExistingBlobKept ==
    [][(/\ last'.op = "set_memory_context"
        /\ last'.guid \in UserIds
        /\ UserFile(last'.guid) \in DOMAIN fs.files)
         => BlobText(fs', UserFile(last'.guid)) = BlobText(fs, UserFile(last'.guid))]_vars

\* C9: when clear_user_memory(id) returns success, the content of
\* memory/<id>/user_memory.json is {}.
C9_ClearedMeansEmpty ==
    (last.op = "clear_user_memory" /\ last.ret[1])
        => BlobText(fs, UserFile(last.guid)) = <<EmptyObjectText>>

\* C10: clear_user_memory(id) restores the previously active scope on every
\* exit path: current_guid and current_memory_path are what they were.
C10_ClearRestoresScope ==
    [][last'.op = "clear_user_memory"
         => /\ current_guid' = current_guid
            /\ current_memory_path' = current_memory_path]_vars

\* A clear of another user's blob, called with a user scope active, whose
\* write fell back to shared memory: it reports success and the target blob
\* still holds its document.
C10_Witness ==
    /\ last.op = "clear_user_memory"
    /\ last.inj
    /\ last.ret[1]
    /\ Truthy(current_guid)
    /\ last.guid # current_guid
    /\ BlobText(fs, UserFile(last.guid)) # <<EmptyObjectText>>

\* C11: clear_user_memory(None) and clear_user_memory("") return failure and
\* change no blob, no directory and neither scope field.
C11_ClearNeedsIdentifier ==
    [][(last'.op = "clear_user_memory" /\ ~Truthy(last'.guid))
         => /\ last'.exc = "none"
            /\ last'.ret[1] = FALSE
            /\ fs' = fs
            /\ current_guid' = current_guid
            /\ current_memory_path' = current_memory_path]_vars

\* clear_user_memory("") was called with a user scope active and a shared
\* blob that holds a document.
C11_Witness ==
    /\ last.op = "clear_user_memory"
    /\ last.guid = ""
    /\ UserScopeActive(Cur)
    /\ BlobText(fs, SharedFile) # <<EmptyObjectText>>

\* C12: for every non-empty identifier that is neither UUID-shaped nor on the
\* default list, set_memory_context(id) returns False, leaves the shared
\* scope active and creates no blob and no directory.
C12_MalformedSelectsShared ==
    [][(/\ last'.op = "set_memory_context"
        /\ Truthy(last'.guid)
        /\ ~UuidShaped(last'.guid)
        /\ last'.guid \notin default_guids)
         => /\ last'.ret = <<FALSE>>
            /\ current_guid' = None
            /\ current_memory_path' = shared_memory_path
            /\ fs' = fs]_vars

\* The document a blob holds, as the manager parses it.
BlobDoc(f, file) == safe_json_loads(f.files[file])

\* In the states the manager reaches, a read under an active user scope
\* fails only when the storage call fails: the blob of an active scope exists.
C13_ActiveBlobExists == UserScopeActive(Cur) => UserFile(current_guid) \in DOMAIN fs.files

-----------------------------------------------------------------------------
(* A caller that selects a user scope, writes, selects it again and reads *)

RoundTripSelect ==
    /\ rt.step = 0
    /\ \E g \in UserIds : \E o \in set_memory_context(Cur, g) :
         /\ Commit("set_memory_context", g, <<>>, o)
         /\ rt' = [step |-> 1, guid |-> g, doc |-> <<>>, clean |-> ~o.s.inj,
                   shared |-> BlobText(fs, SharedFile)]

RoundTripWrite ==
    /\ rt.step = 1
    /\ \E d \in Docs : \E o \in write_json(Cur, d) :
         /\ Commit("write_json", None, d, o)
         /\ rt' = [rt EXCEPT !.step = 2, !.doc = d, !.clean = @ /\ ~o.s.inj]

RoundTripReselect ==
    /\ rt.step = 2
    /\ \E o \in set_memory_context(Cur, rt.guid) :
         /\ Commit("set_memory_context", rt.guid, <<>>, o)
         /\ rt' = [rt EXCEPT !.step = 3, !.clean = @ /\ ~o.s.inj]

RoundTripRead ==
    /\ rt.step = 3
    /\ \E o \in read_json(Cur) :
         /\ Commit("read_json", None, <<>>, o)
         /\ rt' = [rt EXCEPT !.step = 4, !.clean = @ /\ ~o.s.inj]

RoundTripNext ==
    RoundTripSelect \/ RoundTripWrite \/ RoundTripReselect \/ RoundTripRead

RoundTripSpec == Init /\ [][RoundTripNext]_vars

\* C8: with the storage calls succeeding, set_memory_context(id);
\* write_json(doc); set_memory_context(id); read_json() returns doc, and the
\* shared blob is what it was before the sequence.
C8_RoundTrip ==
    (rt.step = 4 /\ rt.clean)
        => /\ last.exc = "none"
           /\ last.ret = <<rt.doc>>
           /\ BlobText(fs, SharedFile) = rt.shared

\* The sequence ran without a storage failure, for the well-formed identifier
\* and a document of two members.
C8_Witness ==
    /\ rt.step = 4
    /\ rt.clean
    /\ rt.guid = GuidA
    /\ Len(rt.doc) = 2

-----------------------------------------------------------------------------
(* function_app.py: main and Assistant.get_response, one step per blocking call *)

\* The tool calls the model may ask for.
ToolNames == {"LearnNewAgent", "ManageMemory", "Echo"}

PublishEcho ==
    Dumps(<< <<"agent_name", Str("Echo!")>>,
             <<"python_implementation",
               Str("class EchoAgent(BasicAgent): name = 'Echo'")>> >>)

\* Argument payloads that are no object: text json.loads rejects, and an array.
MalformedArgs == { <<LBrace, Raw("not json")>>, <<LBracket, RBracket>> }

ToolArgs == { PublishEcho, Dumps(<< <<"user_guid", Str(GuidB)>> >>) } \cup MalformedArgs

Response(kind, content, name, args) ==
    [kind |-> kind, content |-> content, name |-> name, args |-> args]

\* What one call of the completion API can do: raise, answer, or ask for a
\* tool while the request's script allows one.
ModelResponses(tools_left) ==
    {Response("fail", None, "", <<>>)}
    \cup { Response("direct", c, "", <<>>) : c \in {"answer", None} }
    \cup (IF tools_left = 0 THEN {}
          ELSE { Response("tool", None, n, a) : n \in ToolNames, a \in ToolArgs })

\* The text of a response thrown away.
ContentTextDropped(content) == <<Raw("")>>

\* str(msg.content or "")
ContentText(content) == <<Raw(IF content = None THEN "" ELSE content)>>

Increment(n) == IF n < MaxCalls THEN n + 1 ELSE n

\* A turn put in front of the earlier ones.
PrependTurn(seq, x, logs) == IF Len(logs) < MaxTurns THEN <<x>> \o seq ELSE seq

AppendTurn(seq, x, logs) == IF Len(logs) < MaxTurns THEN Append(seq, x) ELSE seq

\* return text, logs
Finish(q, text, logs) == [q EXCEPT !.pc = "done", !.out = [text |-> text, logs |-> logs]]

SetManager(s) ==
    /\ fs' = [dirs |-> s.dirs, files |-> s.files]
    /\ current_guid' = s.current_guid
    /\ current_memory_path' = s.current_memory_path

\* main, lines 448-502: the body is read and the registry is loaded.
Receive(r) ==
    /\ req[r].pc \in {"idle", "done"}
    /\ \E g \in workload.guids, u \in workload.inputs, h \in workload.histories,
          k \in workload.tools, n \in workload.retries :
         req' = [req EXCEPT ![r] =
                   [Idle EXCEPT !.pc = "loaded", !.user_guid = g, !.user_input = u,
                                !.history = h, !.tools_left = k, !.max_retries = n,
                                !.agents = load_agents_from_folder(agent_files)]]
    /\ UNCHANGED <<mgrVars, agent_files, assistant, workload>>

\* Assistant(agents): __init__ returns at once when the singleton is initialized.
Construct(a, agents) ==
    IF a.initialized THEN a
    ELSE [initialized |-> TRUE, known_agents |-> reload_agents(agents),
          user_guid |-> DEFAULT_USER_GUID]

\* main, lines 503-511: the singleton, then the request's identifier.
Configure(r) ==
    LET q == req[r]
        a == Construct(assistant, q.agents)
        g == IF Truthy(q.user_guid) THEN q.user_guid
             ELSE IF guid_pattern(q.user_input) THEN q.user_input
             ELSE None
    IN  /\ q.pc = "loaded"
        /\ \E s0 \in (IF assistant.initialized THEN {Cur}
                      ELSE InitializeContextMemory(Cur, a.known_agents, DEFAULT_USER_GUID)) :
             \E s1 \in (IF g = None THEN {s0}
                        ELSE InitializeContextMemory(s0, a.known_agents, g)) :
               SetManager(s1)
        /\ assistant' = [a EXCEPT !.user_guid = IF g = None THEN @ ELSE g]
        /\ req' = [req EXCEPT ![r].pc = "respond"]
        /\ UNCHANGED <<last, rt, agent_files, workload>>

\* get_response, lines 333-357: the identifier of the history or of the prompt
\* replaces the assistant's; a prompt that is only a GUID is answered at once.
StartResponse(r) ==
    LET q == req[r]
        guid_from_history == CheckFirstMessageForGuid(q.history)
        guid_from_prompt == extract_user_guid(q.user_input)
        target_guid == IF guid_from_history # None THEN guid_from_history
                       ELSE guid_from_prompt
        switch == target_guid # None /\ target_guid # assistant.user_guid
        user_guid == IF switch THEN target_guid
                     ELSE IF ~Truthy(assistant.user_guid) THEN DEFAULT_USER_GUID
                     ELSE assistant.user_guid
    IN  /\ q.pc = "respond"
        /\ \E s1 \in (IF switch \/ ~Truthy(assistant.user_guid)
                      THEN InitializeContextMemory(Cur, assistant.known_agents, user_guid)
                      ELSE {Cur}) :
             SetManager(s1)
        /\ assistant' = [assistant EXCEPT !.user_guid = user_guid]
        /\ req' = [req EXCEPT ![r] =
             IF guid_from_prompt # None /\ q.user_input = guid_from_prompt
                /\ user_guid = guid_from_prompt
             THEN Finish(q, <<Raw("I've successfully loaded your conversation memory. How can I assist you today?")>>, <<>>)
             ELSE [q EXCEPT !.pc = "loop",
                            !.messages = prepare_messages(q.history)
                                         \o <<Message("user", "", <<Raw(q.user_input)>>)>>,
                            !.agent_logs = <<>>,
                            !.retry_count = 0,
                            !.needs_follow_up = FALSE]]
        /\ UNCHANGED <<last, rt, agent_files, workload>>

\* The except branch comparing retry_count <= max_retries: one attempt more
\* is allowed, and the loop's own test ends the request.
FailedOffByOne(q) ==
    IF q.retry_count + 1 <= q.max_retries
    THEN [q EXCEPT !.retry_count = @ + 1, !.pc = "loop"]
    ELSE Finish([q EXCEPT !.retry_count = @ + 1],
                <<Raw("An error occurred. Please try again.")>>, <<>>)

\* The except branch of the retry loop, lines 434-441.
Failed(q) ==
    IF q.retry_count + 1 < q.max_retries
    THEN [q EXCEPT !.retry_count = @ + 1, !.pc = "loop"]
    ELSE Finish([q EXCEPT !.retry_count = @ + 1],
                <<Raw("An error occurred. Please try again.")>>, <<>>)

\* Lines 372-432 for a response that asks for handler agent_name: the request
\* and the agents directory after it, for one outcome p of the handler.
AfterPerformRetried(q, agent_name, p) ==
    IF p.raised
    THEN Failed(q)
    ELSE [q EXCEPT
            !.agent_logs = AppendTurn(@, [name |-> agent_name, result |-> p.result],
                                      q.agent_logs),
            !.messages = AppendTurn(@, Message("function", agent_name, p.result),
                                    q.agent_logs),
            !.needs_follow_up = NeedsFollowUp(p.result),
            !.pc = IF NeedsFollowUp(p.result) THEN "loop" ELSE "final"]

AfterPerform(q, agent_name, p) ==
    IF p.raised
    THEN Finish(q, <<Raw("Error parsing parameters: "), Raw(p.error)>>, <<>>)
    ELSE [q EXCEPT
            !.agent_logs = AppendTurn(@, [name |-> agent_name, result |-> p.result],
                                      q.agent_logs),
            !.messages = AppendTurn(@, Message("function", agent_name, p.result),
                                    q.agent_logs),
            !.needs_follow_up = NeedsFollowUp(p.result),
            !.pc = IF NeedsFollowUp(p.result) THEN "loop" ELSE "final"]

\* if not agent, treated as an exception of the attempt.
UnknownAgentRetried(q, agent_name) == Failed(q)

\* if not agent: return f"Agent '{agent_name}' does not exist", ""
UnknownAgent(q, agent_name) ==
    Finish(q, <<Raw("Agent '"), Raw(agent_name), Raw("' does not exist")>>, <<>>)

\* One pass of the while loop up to its next blocking call, lines 363-429.
Attempt(r) ==
    LET q == req[r]
    IN  /\ q.pc = "loop"
        /\ IF ~(q.retry_count < q.max_retries)
           THEN /\ req' = [req EXCEPT ![r] =
                     Finish(q, <<Raw("Service temporarily unavailable. Please try again later.")>>,
                            <<>>)]
                /\ UNCHANGED agent_files
           ELSE \E m \in ModelResponses(q.tools_left) :
                  LET c == [q EXCEPT !.calls = Increment(@), !.response = m]
                  IN  CASE m.kind = "fail" ->
                             /\ req' = [req EXCEPT ![r] = Failed(c)]
                             /\ UNCHANGED agent_files
                        [] m.kind = "direct" ->
                             /\ req' = [req EXCEPT ![r] =
                                  Finish(c, ContentText(m.content), c.agent_logs)]
                             /\ UNCHANGED agent_files
                        [] m.kind = "tool" /\ m.name \notin DOMAIN assistant.known_agents ->
                             /\ req' = [req EXCEPT ![r] =
                                  UnknownAgent([c EXCEPT !.tools_left = IF @ > 0 THEN @ - 1 ELSE @],
                                               m.name)]
                             /\ UNCHANGED agent_files
                        [] m.kind = "tool" /\ safe_json_loads(m.args) = ListValue ->
                             \* agent_parameters.items() raises inside the inner try
                             /\ req' = [req EXCEPT ![r] =
                                  AfterPerform([c EXCEPT !.tools_left = IF @ > 0 THEN @ - 1 ELSE @],
                                               m.name,
                                               [files |-> agent_files, raised |-> TRUE,
                                                error |-> "'list' object has no attribute 'items'",
                                                result |-> <<>>])]
                             /\ UNCHANGED agent_files
                        [] OTHER ->
                             LET kwargs == HandlerParameters(m.name, m.args, assistant.user_guid)
                                 d == [c EXCEPT !.tools_left = IF @ > 0 THEN @ - 1 ELSE @,
                                                !.performed = <<m.name, kwargs>>]
                             IN  \E p \in Perform(m.name, agent_files, kwargs) :
                                   /\ req' = [req EXCEPT ![r] =
                                        AfterPerform([d EXCEPT !.performed = Append(@, p.error)],
                                                     m.name, p)]
                                   /\ agent_files' = p.files
        /\ UNCHANGED <<mgrVars, assistant, workload>>

\* The final model call, lines 430-432, inside the same try: only the text of
\* its response is read.
FinalCall(r) ==
    LET q == req[r]
    IN  /\ q.pc = "final"
        /\ \E m \in ModelResponses(q.tools_left) :
             LET c == [q EXCEPT !.calls = Increment(@), !.response = m]
             IN  req' = [req EXCEPT ![r] =
                   IF m.kind = "fail" THEN Failed(c)
                   ELSE Finish(c, ContentText(m.content), c.agent_logs)]
        /\ UNCHANGED <<mgrVars, agent_files, assistant, workload>>

Advance(r) == Configure(r) \/ StartResponse(r) \/ Attempt(r) \/ FinalCall(r)

AppNext == \E r \in Reqs : Receive(r) \/ Advance(r)

\* Every blob exists: the share of a deployment that has served its users.
FullShare ==
    [dirs  |-> {shared_memory_path, <<"memory">>}
               \cup { UserDir(g) : g \in {DEFAULT_USER_GUID, GuidA, GuidB} },
     files |-> [f \in {SharedFile} \cup { UserFile(g) : g \in {DEFAULT_USER_GUID, GuidA, GuidB} } |->
                  EmptyObjectText]]

AppInit(active, w) ==
    /\ fs = FullShare
    /\ current_guid = None
    /\ current_memory_path = shared_memory_path
    /\ last = NoCall
    /\ rt = RtIdle
    /\ agent_files = NoFiles
    /\ assistant = NoAssistant
    /\ req = [r \in Reqs |-> IF r \in active THEN Idle ELSE Off]
    /\ workload = w

\* One worker thread: requests are served one after the other.
DispatchInit ==
    AppInit({"r1"}, [guids |-> {None, GuidA}, inputs |-> {"hello"},
                     histories |-> {<<>>}, tools |-> {0, 1, Unbounded},
                     retries |-> {0, 1, max_retries_default}])

DispatchSpec == DispatchInit /\ [][AppNext]_vars

\* A request that has started keeps running: the worker thread is not
\* cancelled.  No new request has to arrive.
FairDispatchSpec == DispatchSpec /\ WF_vars(Advance("r1"))

\* Two worker threads: two requests with different identifiers in progress.
ConcurrentInit ==
    AppInit({"r1", "r2"}, [guids |-> {GuidA, GuidB}, inputs |-> {"hello"},
                           histories |-> {<<>>}, tools |-> {1},
                           retries |-> {1}])

ConcurrentSpec == ConcurrentInit /\ [][AppNext]_vars

\* One worker thread and every max_retries up to one more than the default:
\* get_response called with each of them.
RetryInit ==
    AppInit({"r1"}, [guids |-> {None}, inputs |-> {"hello"},
                     histories |-> {<<>>}, tools |-> {0, 1},
                     retries |-> 0..(max_retries_default + 1)])

RetrySpec == RetryInit /\ [][AppNext]_vars

\* The result texts a handler may return: objects of one member over the keys
\* the evaluation reads and one it does not, objects of two members, and
\* texts that are no object.
ResultKeys == {"error", "status", "requires_additional_action", "note"}

ResultValues == {JsonTrue, JsonFalse, JsonNull, JsonOne, JsonZero,
                 Str(""), Str("incomplete"), Str("x")}

ResultTexts ==
    { Dumps(<< <<k, v>> >>) : k \in ResultKeys, v \in ResultValues }
    \cup { Dumps(<< <<"note", Str("x")>>, <<k, v>> >>) :
             k \in ResultKeys \ {"note"}, v \in {JsonTrue, JsonFalse, Str("incomplete")} }
    \cup { EmptyObjectText, <<Raw("plain text")>>, <<LBracket, RBracket>>,
           <<Str("incomplete")>>, <<JsonTrue>>, <<LBrace, Raw("not json")>> }

\* One worker thread, one tool call per request, handlers that return any of
\* the result texts.
FollowUpInit ==
    AppInit({"r1"}, [guids |-> {None}, inputs |-> {"hello"},
                     histories |-> {<<>>}, tools |-> {1}, retries |-> {1},
                     results |-> ResultTexts])

FollowUpSpec == FollowUpInit /\ [][AppNext]_vars

Turn(role, content) == [role |-> role, content |-> content]

\* Conversation histories: none, a first turn that is only a GUID with either
\* role, and turns that follow or precede one.
Histories ==
    { <<>>,
      <<Turn("user", GuidA)>>,
      <<Turn("assistant", GuidA)>>,
      <<Turn("user", GuidA), Turn("assistant", "hi")>>,
      <<Turn("assistant", GuidA), Turn("user", "hi")>>,
      <<Turn("user", "hi"), Turn("user", GuidA)>>,
      <<Turn("user", "hi"), Turn("assistant", "hello")>> }

\* One worker thread and requests that carry those histories.
HistoryInit ==
    AppInit({"r1"}, [guids |-> {None}, inputs |-> {"hello"},
                     histories |-> Histories, tools |-> {0, 1}, retries |-> {1}])

HistorySpec == HistoryInit /\ [][AppNext]_vars

-----------------------------------------------------------------------------
(* Claims about requests *)

\* C2: scope selection does not leak across concurrent requests: every
\* memory-aware handler invocation made for a request that carries a user
\* identifier is passed that request's own identifier.
C2_NoScopeLeak ==
    \A r \in Reqs :
      (/\ req[r].performed # <<>>
       /\ req[r].performed[1] \in MemoryAgents
       /\ Truthy(req[r].user_guid))
        => DocGet(req[r].performed[2], "user_guid") = Str(req[r].user_guid)

\* C3: every request terminates: whatever the model and the handlers do,
\* get_response eventually returns.
C3_RequestTerminates == (req["r1"].pc = "loop") ~> (req["r1"].pc = "done")

\* C4: the registry get_response looks names up in during a request is the
\* result of that request's own load_agents_from_folder() call.
C4_RegistryFreshPerRequest ==
    \A r \in Reqs :
      req[r].pc \in {"respond", "loop", "final"}
        => assistant.known_agents = req[r].agents

\* The text get_response returns when the attempts are used up: the except
\* branch's on the last failure, the text after the loop when no attempt
\* is allowed at all.
ExhaustedText(max_retries) ==
    IF max_retries > 0
    THEN <<Raw("An error occurred. Please try again.")>>
    ELSE <<Raw("Service temporarily unavailable. Please try again later.")>>

\* C14: get_response with max_retries = n returns the fixed unavailability
\* message exactly when n model calls of the request have failed, and the
\* outcome of the successful call when fewer have; it never makes more than n
\* failing model calls.
C14_RetryThreshold ==
    \A r \in Reqs :
      req[r].pc = "done"
        => /\ req[r].retry_count <= req[r].max_retries
           /\ (req[r].retry_count >= req[r].max_retries)
                <=> (req[r].out.text = ExhaustedText(req[r].max_retries))
           /\ (req[r].retry_count < req[r].max_retries /\ req[r].response.kind = "direct")
                => req[r].out.text = ContentText(req[r].response.content)

\* Three failing model calls with max_retries = 3: retries exhausted.
C14_Witness ==
    /\ req["r1"].pc = "done"
    /\ req["r1"].max_retries = 3
    /\ req["r1"].retry_count = 3
    /\ req["r1"].calls = 3
    /\ req["r1"].performed = <<>>
    /\ req["r1"].out.text = <<Raw("An error occurred. Please try again.")>>

\* Three failing model calls, then a success, with max_retries = 4: the answer.
C14_AnsweredAfterThree ==
    /\ req["r1"].pc = "done"
    /\ req["r1"].max_retries = 4
    /\ req["r1"].retry_count = 3
    /\ req["r1"].out.text = ContentText("answer")

\* What compose builds for a request: the system message, the history and the
\* new user turn.
Composed(q) ==
    prepare_messages(q.history) \o <<Message("user", "", <<Raw(q.user_input)>>)>>

\* C15: every retry restarts from compose with the same inputs: the message
\* sequence of the first model call of each attempt is the sequence composed
\* for the first attempt, with no function-result turn of an earlier attempt.
C15_RetryRestartsFromCompose ==
    \A r \in Reqs :
      (req[r].pc = "loop" /\ ~req[r].needs_follow_up)
        => req[r].messages = Composed(req[r])

\* The request r has just been given, in the loop, a response that asks for
\* a handler the assistant's registry does not hold.
AskedUnknown(r) ==
    /\ req[r].pc = "loop"
    /\ req'[r] # req[r]
    /\ req'[r].response.kind = "tool"
    /\ req[r].retry_count < req[r].max_retries
    /\ req'[r].response.name \notin DOMAIN assistant.known_agents

\* C16: when the model's response names a handler that is not in the
\* registry, get_response returns at once an error text that contains the
\* name: no handler is invoked, no further model call is made and no retry
\* is counted, however many tool calls preceded it in the request.
C16_UnknownHandlerIsTerminal ==
    [][\A r \in Reqs :
         AskedUnknown(r)
           => /\ req'[r].pc = "done"
              /\ req'[r].out.text = <<Raw("Agent '"), Raw(req'[r].response.name),
                                      Raw("' does not exist")>>
              /\ req'[r].performed = req[r].performed
              /\ req'[r].agent_logs = req[r].agent_logs
              /\ req'[r].retry_count = req[r].retry_count
              /\ req'[r].calls = Increment(req[r].calls)
              /\ agent_files' = agent_files
              /\ fs' = fs]_vars

\* A request whose first response asked for a registered handler, whose
\* result needed follow-up, and whose second response asked for Echo, which
\* is not registered.
C16_Witness ==
    /\ req["r1"].pc = "done"
    /\ req["r1"].response.kind = "tool"
    /\ req["r1"].response.name = "Echo"
    /\ "Echo" \notin DOMAIN assistant.known_agents
    /\ req["r1"].agent_logs # <<>>
    /\ req["r1"].out.text = <<Raw("Agent '"), Raw("Echo"), Raw("' does not exist")>>

\* The request r has just been given, in the loop, a response that asks for
\* a registered handler with an argument payload that is no object.
AskedMalformed(r) ==
    /\ req[r].pc = "loop"
    /\ req'[r] # req[r]
    /\ req[r].retry_count < req[r].max_retries
    /\ req'[r].response.kind = "tool"
    /\ req'[r].response.name \in DOMAIN assistant.known_agents
    /\ req'[r].response.args \in MalformedArgs

\* C17: a tool call whose argument payload is malformed (text that does not
\* parse, or a document that is no object) ends the request: get_response
\* returns at once, without a retry and without a further model call.
C17_MalformedArgsAreTerminal ==
    [][\A r \in Reqs :
         AskedMalformed(r)
           => /\ req'[r].pc = "done"
              /\ req'[r].performed = req[r].performed
              /\ req'[r].retry_count = req[r].retry_count]_vars

\* The request r has just been given a response that carries no tool call,
\* in the loop or as its final call.
AnsweredDirectly(r) ==
    /\ req[r].pc \in {"loop", "final"}
    /\ req'[r] # req[r]
    /\ req[r].pc = "loop" => req[r].retry_count < req[r].max_retries
    /\ req'[r].response.kind = "direct"

\* C18: when the model's response carries no tool call, get_response returns
\* its message text as it is (empty text when absent) and makes no further
\* model call; when it is the first model response of the request, the
\* returned agent-invocation log is empty.
C18_DirectAnswerVerbatim ==
    [][\A r \in Reqs :
         AnsweredDirectly(r)
           => /\ req'[r].pc = "done"
              /\ req'[r].out.text =
                   <<Raw(IF req'[r].response.content = None THEN ""
                         ELSE req'[r].response.content)>>
              /\ req'[r].calls = Increment(req[r].calls)
              /\ req'[r].retry_count = req[r].retry_count
              /\ req'[r].performed = req[r].performed
              /\ req[r].calls = 0 => req'[r].out.logs = <<>>]_vars

\* The first response of a request carried the text 'answer' and no tool call.
C18_Witness ==
    /\ req["r1"].pc = "done"
    /\ req["r1"].response.kind = "direct"
    /\ req["r1"].response.content = "answer"
    /\ req["r1"].calls = 1
    /\ req["r1"].out = [text |-> <<Raw("answer")>>, logs |-> <<>>]

\* C19: the agent-invocation log get_response returns holds, in invocation
\* order, one entry per handler invocation of the request, for every outcome
\* of a request in which a handler was invoked.
C19_LogHoldsEveryInvocation ==
    \A r \in Reqs :
      (req[r].pc = "done" /\ req[r].agent_logs # <<>>)
        => req[r].out.logs = req[r].agent_logs

\* A handler has just been invoked for request r and has returned.
HandlerReturned(r) ==
    /\ req[r].pc = "loop"
    /\ req'[r] # req[r]
    /\ req[r].retry_count < req[r].max_retries
    /\ req'[r].response.kind = "tool"
    /\ req'[r].pc \in {"loop", "final"}

\* Request r has just returned the text of a model response.
Answered(r) ==
    \/ AnsweredDirectly(r)
    \/ req[r].pc = "final" /\ req'[r].pc = "done" /\ req'[r].response.kind # "fail"

\* C19, amended: when get_response returns the text of a model response, the
\* log it returns holds, in invocation order, one entry per handler
\* invocation of the request that returned, naming the handler and its
\* result; the error outcomes return an empty log.
C19_LogOfAnsweredRequest ==
    [][\A r \in Reqs :
         /\ HandlerReturned(r)
              => (Len(req[r].agent_logs) < MaxTurns
                    => req'[r].agent_logs =
                         Append(req[r].agent_logs,
                                [name |-> req'[r].response.name,
                                 result |-> req'[r].messages[Len(req'[r].messages)].content]))
         /\ (~HandlerReturned(r) /\ req[r].pc \in {"loop", "final"})
              => req'[r].agent_logs = req[r].agent_logs
         /\ Answered(r) => req'[r].out.logs = req[r].agent_logs
         /\ (req[r].pc \in {"loop", "final"} /\ req'[r].pc = "done" /\ ~Answered(r))
              => req'[r].out.logs = <<>>]_vars

\* A request answered after two invocations of different handlers.
C19_Witness ==
    /\ req["r1"].pc = "done"
    /\ req["r1"].response.kind = "direct"
    /\ Len(req["r1"].out.logs) = 2
    /\ req["r1"].out.logs[1].name = "LearnNewAgent"
    /\ req["r1"].out.logs[2].name = "ManageMemory"

\* The last turn of request r's message sequence after the step.
LastTurn(r) == req'[r].messages[Len(req'[r].messages)]

\* C20: when a handler's result needs no follow-up (plain text that does not
\* parse as an object), one further model call is made with the message
\* sequence extended by the function-result turn and its text is returned as
\* the final answer: the request ends there whatever that response holds, with
\* no further handler invocation and no loop.
C20_FinalCallIsTerminal ==
    [][\A r \in Reqs :
         /\ (/\ HandlerReturned(r)
             /\ Len(req[r].agent_logs) < MaxTurns
             /\ ~json_loads(LastTurn(r).content).ok)
              => /\ req'[r].pc = "final"
                 /\ req'[r].messages =
                      Append(req[r].messages,
                             Message("function", req'[r].response.name,
                                     LastTurn(r).content))
                 /\ req'[r].calls = Increment(req[r].calls)
         /\ (req[r].pc = "final" /\ req'[r] # req[r] /\ req'[r].response.kind # "fail")
              => /\ req'[r].pc = "done"
                 /\ req'[r].out.text =
                      <<Raw(IF req'[r].response.content = None THEN ""
                            ELSE req'[r].response.content)>>
                 /\ req'[r].calls = Increment(req[r].calls)
                 /\ req'[r].messages = req[r].messages
                 /\ req'[r].performed = req[r].performed
                 /\ req'[r].agent_logs = req[r].agent_logs
                 /\ agent_files' = agent_files]_vars

\* A request whose handler returned plain text and whose final response asked
\* for a tool again: two model calls, one invocation, the request is over.
C20_Witness ==
    /\ req["r1"].pc = "done"
    /\ req["r1"].response.kind = "tool"
    /\ req["r1"].calls = 2
    /\ req["r1"].retry_count = 0
    /\ Len(req["r1"].agent_logs) = 1
    /\ req["r1"].agent_logs[1].result = <<Raw("done")>>
    /\ req["r1"].out.text = <<Raw("")>>

\* The text of a result that reports an incomplete status.
IncompleteText == Dumps(<< <<"status", Str("incomplete")>> >>)

\* C21: when a handler's result requires follow-up ({"status": "incomplete"}),
\* control goes back to the model call with the message sequence extended by
\* the function-result turn and no retry attempt is used; when the next
\* response is a direct answer, that one further model call is the last and
\* its text is the final answer.
C21_FollowUpLoopsBack ==
    [][\A r \in Reqs :
         /\ (/\ HandlerReturned(r)
             /\ Len(req[r].agent_logs) < MaxTurns
             /\ LastTurn(r).content = IncompleteText)
              => /\ req'[r].pc = "loop"
                 /\ req'[r].needs_follow_up
                 /\ req'[r].retry_count = req[r].retry_count
                 /\ req'[r].messages =
                      Append(req[r].messages,
                             Message("function", req'[r].response.name, IncompleteText))
         /\ (req[r].needs_follow_up /\ AnsweredDirectly(r))
              => /\ req'[r].pc = "done"
                 /\ req'[r].calls = Increment(req[r].calls)
                 /\ req'[r].retry_count = req[r].retry_count
                 /\ req'[r].messages = req[r].messages
                 /\ req'[r].out.text =
                      <<Raw(IF req'[r].response.content = None THEN ""
                            ELSE req'[r].response.content)>>]_vars

\* One invocation with an incomplete result, then a direct answer: two model
\* calls, no retry.
C21_Witness ==
    /\ req["r1"].pc = "done"
    /\ req["r1"].response.kind = "direct"
    /\ req["r1"].needs_follow_up
    /\ req["r1"].calls = 2
    /\ req["r1"].retry_count = 0
    /\ Len(req["r1"].agent_logs) = 1
    /\ req["r1"].agent_logs[1].result = IncompleteText
    /\ req["r1"].out.text = <<Raw("answer")>>

\* The members of the object a text holds, <<>> when it holds none.
ObjectOf(text) == IF json_loads(text).ok THEN json_loads(text).doc ELSE <<>>

\* C22: follow-up is required iff the result text parses as a JSON object
\* that carries a truthy 'error' value, or 'status' equal to 'incomplete', or
\* 'requires_additional_action' equal to true; for unparseable text and for
\* documents that are no object no follow-up is required and nothing is raised.
C22_FollowUpPredicate ==
    [][\A r \in Reqs :
         HandlerReturned(r)
           => /\ req'[r].retry_count = req[r].retry_count
              /\ req'[r].needs_follow_up
                   <=> /\ json_loads(LastTurn(r).content).ok
                       /\ \/ DocGet(ObjectOf(LastTurn(r).content), "error")
                                \notin {JsonNull, JsonFalse, JsonZero, Str("")}
                          \/ DocGet(ObjectOf(LastTurn(r).content), "status")
                                = Str("incomplete")
                          \/ DocGet(ObjectOf(LastTurn(r).content),
                                    "requires_additional_action") = JsonTrue]_vars

\* C22, amended: as C22, with 'requires_additional_action' equal to true or
\* to the number 1, which Python's == True accepts as well.
C22_FollowUpPredicatePython ==
    [][\A r \in Reqs :
         HandlerReturned(r)
           => /\ req'[r].retry_count = req[r].retry_count
              /\ req'[r].needs_follow_up
                   <=> /\ json_loads(LastTurn(r).content).ok
                       /\ \/ DocGet(ObjectOf(LastTurn(r).content), "error")
                                \notin {JsonNull, JsonFalse, JsonZero, Str("")}
                          \/ DocGet(ObjectOf(LastTurn(r).content), "status")
                                = Str("incomplete")
                          \/ DocGet(ObjectOf(LastTurn(r).content),
                                    "requires_additional_action") \in {JsonTrue, JsonOne}]_vars

\* A result {"note": "x", "requires_additional_action": true} was evaluated:
\* follow-up is required.
C22_Witness ==
    /\ req["r1"].pc = "loop"
    /\ req["r1"].needs_follow_up
    /\ req["r1"].retry_count = 0
    /\ Len(req["r1"].agent_logs) = 1
    /\ req["r1"].agent_logs[1].result =
         Dumps(<< <<"note", Str("x")>>, <<"requires_additional_action", JsonTrue>> >>)

\* A registered handler has just been invoked for request r.
HandlerInvoked(r) ==
    /\ req[r].pc = "loop"
    /\ req'[r] # req[r]
    /\ req[r].retry_count < req[r].max_retries
    /\ req'[r].response.kind = "tool"
    /\ req'[r].response.name \in DOMAIN assistant.known_agents
    /\ ~IsArrayText(req'[r].response.args)

\* C23: for every tool call to ManageMemory or ContextMemory the user_guid
\* passed to the handler is the Assistant's active user identifier, whatever
\* user_guid the model's arguments supply; for every other handler no
\* user_guid is added to the arguments or changed in them.
C23_UserGuidInjected ==
    [][\A r \in Reqs :
         HandlerInvoked(r)
           => /\ req'[r].performed[1] = req'[r].response.name
              /\ IF req'[r].response.name \in {"ManageMemory", "ContextMemory"}
                 THEN DocGet(req'[r].performed[2], "user_guid") = Str(assistant.user_guid)
                 ELSE DocGet(req'[r].performed[2], "user_guid")
                        = DocGet(ObjectOf(req'[r].response.args), "user_guid")]_vars

\* ManageMemory was asked for with another user's identifier in the arguments
\* and was invoked with the request's.
C23_Witness ==
    /\ req["r1"].performed # <<>>
    /\ req["r1"].performed[1] = "ManageMemory"
    /\ req["r1"].response.kind = "tool"
    /\ DocGet(ObjectOf(req["r1"].response.args), "user_guid") = Str(GuidB)
    /\ assistant.user_guid = GuidA
    /\ DocGet(req["r1"].performed[2], "user_guid") = Str(GuidA)

\* The history without a first turn whose content is exactly a GUID.
WithoutGuidTurn(history) ==
    IF history # <<>> /\ UuidShaped(history[1].content) THEN Tail(history)
    ELSE history

\* C24: a first history turn whose content is exactly a UUID-shaped string is
\* left out of the message sequence sent to the model, whatever its role;
\* every other history turn is in it, in the original order.
C24_GuidTurnDropped ==
    \A r \in Reqs :
      (req[r].pc = "loop" /\ req[r].calls = 0)
        => LET kept == WithoutGuidTurn(req[r].history)
           IN  /\ Len(req[r].messages) = Len(kept) + 2
               /\ req[r].messages[1].role = "system"
               /\ \A i \in 1..Len(kept) :
                     req[r].messages[i + 1] =
                       [role |-> kept[i].role, name |-> "",
                        content |-> <<Raw(kept[i].content)>>]
               /\ req[r].messages[Len(kept) + 2].role = "user"

-----------------------------------------------------------------------------
(* Discovery over folders in which some files fail to load *)

\* A second bundled file that declares the name of manage_memory_agent.py.
OverrideFile ==
    [file |-> "override_agent",
     source |-> "class ShadowAgent(BasicAgent): name = 'ManageMemory'"]

\* The bundled folder: each file loads or is broken; os.listdir may put the
\* overriding file before or after the others.
StaticListings ==
    LET variants == { [i \in 1..3 |-> [file |-> BundledListing[i].file, source |-> s[i]]] :
                        s \in [1..3 -> {"loads", "import missing_module"}] }
        fixed == { [i \in 1..3 |->
                      IF l[i].source = "loads" THEN BundledListing[i] ELSE l[i]] :
                   l \in variants }
    IN  fixed \cup { <<OverrideFile>> \o l : l \in fixed }
              \cup { l \o <<OverrideFile>> : l \in fixed }

DynamicSources ==
    { "class EchoAgent(BasicAgent): name = 'Echo'",
      "class EchoTwoAgent(BasicAgent): name = 'Echo'",
      "class ShadowAgent(BasicAgent): name = 'ManageMemory'",
      "class AEchoAgent(BasicAgent): name = 'Echo'; class ZedAgent(BasicAgent): __init__ raises",
      "def broken(:",
      "class BadAgent(BasicAgent): __init__ raises" }

DynamicStems == {"Echo", "Echo2", "Shadow"}

DiscoveryInit ==
    /\ fs = FullShare
    /\ current_guid = None
    /\ current_memory_path = shared_memory_path
    /\ last = NoCall
    /\ rt = RtIdle
    /\ \E S \in SUBSET DynamicStems : agent_files \in [S -> DynamicSources]
    /\ assistant = NoAssistant
    /\ req = [r \in Reqs |-> IF r = "r1" THEN Idle ELSE Off]
    /\ \E l \in StaticListings : workload = [NoWorkload EXCEPT !.tools = {0}] @@ [static |-> l]

\* load_agents_from_folder() over the bundled folder and the share
Discover(r) ==
    /\ req[r].pc = "idle"
    /\ req' = [req EXCEPT ![r] = [@ EXCEPT !.pc = "loaded",
                                           !.agents = LoadAgents(workload.static,
                                                                 Listing(agent_files))]]
    /\ UNCHANGED <<fs, current_guid, current_memory_path, last, rt, agent_files,
                   assistant, workload>>

DiscoveryNext == Discover("r1")

DiscoverySpec == DiscoveryInit /\ [][DiscoveryNext]_vars

\* The files of both folders in the order discovery visits them.
DiscoveryOrder ==
    [i \in 1..Len(workload.static) |->
        [origin |-> "bundled", file |-> workload.static[i].file,
         source |-> workload.static[i].source]]
    \o [i \in 1..Len(Listing(agent_files)) |->
        [origin |-> "share", file |-> Listing(agent_files)[i].file,
         source |-> Listing(agent_files)[i].source]]

Discovered == req["r1"].pc = "loaded" /\ "static" \in DOMAIN workload

LastDeclaring(n) ==
    CHOOSE i \in DOMAIN DiscoveryOrder :
        /\ n \in DeclaredNames(DiscoveryOrder[i].source)
        /\ \A j \in DOMAIN DiscoveryOrder :
              n \in DeclaredNames(DiscoveryOrder[j].source) => j <= i

\* C26: the returned mapping has one handler per name, the names are those
\* some file registered, and a name registered by several files is held by
\* the handler of the file visited last; a bundled handler is replaced by a
\* handler of the share with the same name.
C26_LatestDefinitionWins ==
    Discovered =>
        /\ DOMAIN req["r1"].agents =
              UNION { DeclaredNames(DiscoveryOrder[i].source) : i \in DOMAIN DiscoveryOrder }
        /\ \A n \in DOMAIN req["r1"].agents :
              LET f == DiscoveryOrder[LastDeclaring(n)]
              IN  req["r1"].agents[n] = <<f.origin, f.file>>
        /\ \A n \in DOMAIN req["r1"].agents :
              (\E x \in DOMAIN agent_files : n \in DeclaredNames(agent_files[x]))
                  => req["r1"].agents[n][1] = "share"

\* The name ManageMemory is registered by two bundled files and by a file of
\* the share, and Echo by two files of the share.
C26_Witness ==
    /\ Discovered
    /\ Len(workload.static) = 4
    /\ \A i \in 1..4 : ~LoadFails(workload.static[i].source)
    /\ DOMAIN agent_files = DynamicStems
    /\ agent_files["Shadow"] = "class ShadowAgent(BasicAgent): name = 'ManageMemory'"
    /\ req["r1"].agents["ManageMemory"] = <<"share", "Shadow">>
    /\ agent_files["Echo"] = "class EchoAgent(BasicAgent): name = 'Echo'"
    /\ req["r1"].agents["Echo"] = <<"share", "Echo2">>

\* The request supplied no user_guid, its input is not a GUID and names
\* none, and its history does not start with one.
NamesNoIdentifier(q) ==
    /\ ~Truthy(q.user_guid)
    /\ ~guid_pattern(q.user_input)
    /\ extract_user_guid(q.user_input) = None
    /\ CheckFirstMessageForGuid(q.history) = None

\* C27: a request that supplies no user_guid and whose input is not a bare
\* GUID is served under DEFAULT_USER_GUID, whatever requests came before:
\* its memory-aware handlers are invoked with DEFAULT_USER_GUID, and the
\* user_guid its response reports (the Assistant's, when get_response has
\* returned) is DEFAULT_USER_GUID.
C27_DefaultIdentifierServed ==
    \A r \in Reqs :
      (req[r].pc \in {"loop", "final", "done"} /\ NamesNoIdentifier(req[r]))
        => /\ assistant.user_guid = DEFAULT_USER_GUID
           /\ (req[r].performed # <<>> /\ req[r].performed[1] \in MemoryAgents)
                 => DocGet(req[r].performed[2], "user_guid") = Str(DEFAULT_USER_GUID)

-----------------------------------------------------------------------------
(* Constructing the memory-context manager *)

\* AzureFileStorageManager.__init__: the scope fields, then _ensure_share_exists.
Constructor(s) == EnsureShareExists(SharedScope(s))

\* A share on which nothing was created yet.
EmptyShare == [dirs |-> {}, files |-> [f \in {} |-> <<>>]]

\* The share before a manager is constructed: empty, or as earlier
\* managers left it.
ConstructionInit ==
    /\ \/ fs = EmptyShare
       \/ \E sd \in Docs : \E u \in [UserIds -> Blobs] : fs = InitShare(sd, u)
    /\ current_guid = None
    /\ current_memory_path = shared_memory_path
    /\ last = NoCall
    /\ rt = RtIdle
    /\ agent_files = NoFiles
    /\ assistant = NoAssistant
    /\ req = [r \in Reqs |-> Off]
    /\ workload = CallerWorkload(Ids \ {GuidNewline})

\* AzureFileStorageManager()
NewManager ==
    /\ \E o \in Constructor(Cur) : Commit("__init__", None, <<>>, o)
    /\ UNCHANGED rt

ConstructionNext == NewManager \/ Next

ConstructionSpec == ConstructionInit /\ [][ConstructionNext]_vars

\* C28: constructing an AzureFileStorageManager never changes the content of
\* a shared memory blob that exists, whatever storage calls fail; it writes
\* {} to shared_memories/memory.json only when that blob is absent.
C28_ConstructionKeepsSharedBlob ==
    [][(last'.op = "__init__" /\ SharedFile \in DOMAIN fs.files)
         => BlobText(fs', SharedFile) = BlobText(fs, SharedFile)]_vars

\* C29: a handler invocation that raises ends the request in that step:
\* get_response returns 'Error parsing parameters: ' followed by the text of
\* the exception, the retry counter is not incremented, no function-result
\* turn is appended, and the only model call counted is the one that asked
\* for the handler.
C29_RaisingHandlerEndsRequest ==
    [][\A r \in Reqs :
         (HandlerInvoked(r) /\ req'[r].performed[3] # "")
           => /\ req'[r].pc = "done"
              /\ req'[r].out.text = <<Raw("Error parsing parameters: "),
                                      Raw(req'[r].performed[3])>>
              /\ req'[r].retry_count = req[r].retry_count
              /\ req'[r].messages = req[r].messages
              /\ req'[r].calls = Increment(req[r].calls)]_vars

\* The handler raised on an attempt that followed a failed model call.
C29_Witness ==
    /\ req["r1"].pc = "done"
    /\ req["r1"].response.kind = "tool"
    /\ Len(req["r1"].performed) = 3
    /\ req["r1"].performed[3] = "handler failed"
    /\ req["r1"].retry_count = 1
    /\ req["r1"].out.text = <<Raw("Error parsing parameters: "), Raw("handler failed")>>

\* C30: after construction, set_memory_context, read_json, write_json or
\* clear_user_memory has returned, current_guid is None exactly when
\* current_memory_path is the shared memory path, and otherwise
\* current_memory_path is memory/<current_guid>.
C30_ScopeFieldsConsistent ==
    (/\ last.op \in {"__init__", "set_memory_context", "read_json", "write_json",
                      "clear_user_memory"}
     /\ last.exc = "none")
      => /\ (current_guid = None) <=> (current_memory_path = shared_memory_path)
         /\ current_guid # None => current_memory_path = UserDir(current_guid)

\* Another user's memory was cleared while a user scope was selected, and
\* the selected scope is back in both fields.
C30_Witness ==
    /\ last.op = "clear_user_memory"
    /\ last.exc = "none"
    /\ last.guid = DEFAULT_USER_GUID
    /\ last.ret # <<>> /\ last.ret[1] = TRUE
    /\ current_guid = GuidA
    /\ current_memory_path = UserDir(GuidA)

-----------------------------------------------------------------------------
(* Requests whose body, prompt and history each may name an identifier *)

LabelledGuid == "guid: 3fa85f64-5717-4562-b3fc-2c963f66afa6"

\* One worker thread; the body carries GuidB or no identifier, the prompt is
\* plain, a bare GUID or a labelled GUID, the history starts with a GUID or
\* is empty.
IdentifierInit ==
    AppInit({"r1"}, [guids |-> {None, GuidB},
                     inputs |-> {"hello", GuidA, LabelledGuid},
                     histories |-> {<<>>, <<Turn("user", GuidA)>>,
                                    <<Turn("user", GuidB)>>},
                     tools |-> {0, 1}, retries |-> {1}])

IdentifierSpec == IdentifierInit /\ [][AppNext]_vars

MemoryLoadedText ==
    <<Raw("I've successfully loaded your conversation memory. How can I assist you today?")>>

\* get_response starts on request r.
ResponseStarted(r) == req[r].pc = "respond" /\ req'[r] # req[r]

\* The first turn of the history names no identifier other than id.
HistorySelectsNoOther(history, id) ==
    \/ history = <<>>
    \/ history[1].role # "user"
    \/ ~UuidShaped(history[1].content)
    \/ history[1].content = id

\* C33: when the prompt is exactly a UUID-shaped string and the first turn
\* of the history selects no other identifier, get_response makes the prompt
\* the active user identifier and returns the 'memory loaded' text with an
\* empty log and no model call; a prompt that labels a GUID ('guid: <id>')
\* is not answered at once: it goes to the dispatch loop as the user turn.
C33_BareGuidShortCircuits ==
    [][\A r \in Reqs :
         ResponseStarted(r)
           => /\ (/\ UuidShaped(req[r].user_input)
                  /\ HistorySelectsNoOther(req[r].history, req[r].user_input))
                   => /\ assistant'.user_guid = req[r].user_input
                      /\ req'[r].pc = "done"
                      /\ req'[r].out = [text |-> MemoryLoadedText, logs |-> <<>>]
                      /\ req'[r].calls = 0
              /\ req[r].user_input = LabelledGuid
                   => /\ req'[r].pc = "loop"
                      /\ req'[r].messages[Len(req'[r].messages)]
                           = Message("user", "", <<Raw(LabelledGuid)>>)]_vars

\* A bare GUID prompt replaced the identifier of the request body and was
\* answered without a model call.
C33_Witness ==
    /\ req["r1"].pc = "done"
    /\ req["r1"].user_input = GuidA
    /\ req["r1"].user_guid = GuidB
    /\ req["r1"].history = <<>>
    /\ req["r1"].calls = 0
    /\ req["r1"].out = [text |-> MemoryLoadedText, logs |-> <<>>]
    /\ assistant.user_guid = GuidA

-----------------------------------------------------------------------------
(* Discovery while the blob store fails *)

\* The files of the share that list_files and read_file deliver: none when
\* the listing failed ([]), and no file whose read failed (None).
Delivered(files, listed, unreadable) ==
    IF listed THEN [x \in DOMAIN files \ unreadable |-> files[x]] ELSE NoFiles

\* main's answer to an exception of the request: status 500.
InternalServerError == [text |-> <<Raw("Internal server error")>>, logs |-> <<>>]

\* load_agents_from_folder() with its storage calls: the manager is
\* constructed outside every try, so an exception of the constructor leaves
\* the function and main answers 500; a failed listing or read is skipped.
DiscoverFromStore(r) ==
    /\ req[r].pc = "idle"
    /\ \E o \in Constructor(MkState(fs, None, shared_memory_path)) :
         /\ fs' = [dirs |-> o.s.dirs, files |-> o.s.files]
         /\ IF o.exc # "none"
            THEN /\ req' = [req EXCEPT ![r] = [@ EXCEPT !.pc = "done",
                                                       !.out = InternalServerError]]
                 /\ last' = [NoCall EXCEPT !.op = "load_agents_from_folder",
                                           !.exc = o.exc, !.inj = TRUE]
            ELSE \E listed \in BOOLEAN : \E unreadable \in SUBSET DOMAIN agent_files :
                   /\ listed \/ unreadable = {}
                   /\ req' = [req EXCEPT ![r] =
                        [@ EXCEPT !.pc = "loaded",
                                  !.agents = LoadAgents(workload.static,
                                               Listing(Delivered(agent_files, listed,
                                                                 unreadable)))]]
                   /\ last' = [NoCall EXCEPT !.op = "load_agents_from_folder",
                                             !.ret = <<listed, unreadable>>,
                                             !.inj = o.s.inj \/ ~listed \/ unreadable # {}]
    /\ UNCHANGED <<current_guid, current_memory_path, rt, agent_files, assistant,
                   workload>>

StoreDiscoveryNext == DiscoverFromStore("r1")

StoreDiscoverySpec == DiscoveryInit /\ [][StoreDiscoveryNext]_vars

\* C32: when the blob store fails during discovery (in the construction of
\* the storage manager, in the listing or in a read of the agents
\* directory), load_agents_from_folder returns, and the mapping holds the
\* handlers of every bundled file that loaded.
C32_StoreFailureKeepsBundled ==
    (last.op = "load_agents_from_folder" /\ last.inj)
      => /\ req["r1"].pc = "loaded"
         /\ \A i \in DOMAIN workload.static :
              ~LoadFails(workload.static[i].source)
                => DeclaredNames(workload.static[i].source) \subseteq DOMAIN req["r1"].agents

====
